---- MODULE Spec2Model ----
(***************************************************************************)
(* Model of the mDNS discovery engine of service-discovery-lib             *)
(* (src/src/mdns_lib.js): the message codec (build_query, read_name,       *)
(* parse_record, parse_dns_message), the record correlation done by the    *)
(* 'message' handler of start_mdns_listener, and the two search sessions   *)
(* (search_mdns_services, search_mdns_servicesmv1).                        *)
(*                                                                         *)
(* A buffer is a sequence of byte values; a string is the sequence of its  *)
(* UTF-16 code units (characters of the Basic Multilingual Plane, one unit *)
(* each), so that its length, suffix tests, splitting and joining are real *)
(* string operations and the UTF-8 conversions between the two are real    *)
(* conversions.                                                            *)
(* An optional JavaScript value (undefined or a value v) is the sequence   *)
(* << >> or << v >>.                                                       *)
(***************************************************************************)
EXTENDS Integers, Sequences, FiniteSets, TLC

Min2(a, b) == IF a < b THEN a ELSE b

(***************************************************************************)
(* Node Buffer primitives as the codec uses them.  The integer reads throw *)
(* a RangeError when the bytes are not all inside the buffer (CanRead is   *)
(* the condition under which they return); toString and slice clamp their  *)
(* end to the buffer length and never throw.                               *)
(***************************************************************************)
CanRead(buffer, offset, n) == offset >= 0 /\ offset + n <= Len(buffer)

readUInt8(buffer, offset) == buffer[offset + 1]

readUInt16BE(buffer, offset) == buffer[offset + 1] * 256 + buffer[offset + 2]

\* The 32-bit value as its high and its low 16 bits (the value itself may
\* exceed the integers of the model checker).
readUInt32BE(buffer, offset) ==
    << buffer[offset + 1] * 256 + buffer[offset + 2],
       buffer[offset + 3] * 256 + buffer[offset + 4] >>

\* Buffer.from(string): the UTF-8 bytes of the string.
RECURSIVE Buffer_from(_)
Buffer_from(str) ==
    IF Len(str) = 0 THEN << >>
    ELSE (IF Head(str) < 128 THEN << Head(str) >>
          ELSE IF Head(str) < 2048
          THEN << 192 + (Head(str) \div 64), 128 + (Head(str) % 64) >>
          ELSE << 224 + (Head(str) \div 4096), 128 + ((Head(str) \div 64) % 64),
                  128 + (Head(str) % 64) >>)
         \o Buffer_from(Tail(str))

\* A UTF-8 continuation byte.
IsContinuation(byte) == byte >= 128 /\ byte <= 191

\* UTF-8 decoding with replacement: a byte that starts no well-formed
\* sequence of one, two or three bytes becomes U+FFFD (65533).  (A sequence
\* of four bytes and a truncated sequence of three, which Node decodes to
\* two units and to one U+FFFD, occur in no input of this model.)
RECURSIVE utf8_decode(_)
utf8_decode(bytes) ==
    IF Len(bytes) = 0 THEN << >>
    ELSE IF bytes[1] < 128 THEN << bytes[1] >> \o utf8_decode(Tail(bytes))
    ELSE IF /\ bytes[1] >= 194 /\ bytes[1] <= 223
            /\ Len(bytes) >= 2 /\ IsContinuation(bytes[2])
    THEN << (bytes[1] - 192) * 64 + (bytes[2] - 128) >>
             \o utf8_decode(SubSeq(bytes, 3, Len(bytes)))
    ELSE IF /\ bytes[1] >= 224 /\ bytes[1] <= 239
            /\ Len(bytes) >= 3 /\ IsContinuation(bytes[2]) /\ IsContinuation(bytes[3])
            /\ (bytes[1] - 224) * 64 + (bytes[2] - 128) >= 32
            /\ (bytes[1] - 224) * 64 + (bytes[2] - 128) \notin 864..895
    THEN << ((bytes[1] - 224) * 64 + (bytes[2] - 128)) * 64 + (bytes[3] - 128) >>
             \o utf8_decode(SubSeq(bytes, 4, Len(bytes)))
    ELSE << 65533 >> \o utf8_decode(Tail(bytes))

\* buffer.toString('utf8', start, end)
toString(buffer, start, end) ==
    IF start >= Min2(end, Len(buffer)) THEN << >>
    ELSE utf8_decode(SubSeq(buffer, start + 1, Min2(end, Len(buffer))))

slice(buffer, start, end) ==
    IF start >= Min2(end, Len(buffer)) THEN << >>
    ELSE SubSeq(buffer, start + 1, Min2(end, Len(buffer)))

(***************************************************************************)
(* String helpers of the JavaScript runtime.                               *)
(***************************************************************************)
RECURSIVE join(_, _)
join(parts, sep) ==
    IF Len(parts) = 0 THEN << >>
    ELSE IF Len(parts) = 1 THEN parts[1]
    ELSE parts[1] \o sep \o join(Tail(parts), sep)

endsWith(str, suffix) ==
    /\ Len(suffix) <= Len(str)
    /\ SubSeq(str, Len(str) - Len(suffix) + 1, Len(str)) = suffix

\* str.indexOf(ch): the 0-based position of the first ch, -1 when there is none.
indexOf(str, ch) ==
    IF \E i \in 1..Len(str) : str[i] = ch
    THEN (CHOOSE i \in 1..Len(str) : str[i] = ch /\ \A j \in 1..(i - 1) : str[j] # ch) - 1
    ELSE -1

\* str.split('.'): the pieces between the dots, empty pieces included.
RECURSIVE split(_, _)
split(str, ch) ==
    LET i == indexOf(str, ch)
    IN IF i = -1 THEN << str >>
       ELSE << SubSeq(str, 1, i) >> \o split(SubSeq(str, i + 2, Len(str)), ch)

\* Number to decimal text, as Array.prototype.join formats a byte.
RECURSIVE decimal(_)
decimal(n) ==
    IF n < 10 THEN << 48 + n >> ELSE decimal(n \div 10) \o << 48 + (n % 10) >>

\* The text ".local" and the character '.'.
DOT == << 46 >>
LOCAL_SUFFIX == << 46, 108, 111, 99, 97, 108 >>

(***************************************************************************)
(* build_query                                                             *)
(***************************************************************************)
\* The loop over qname_parts: empty parts are skipped, every other part is
\* written as one byte holding part.length, the number of UTF-16 units of
\* the part, and the UTF-8 bytes of the part; then the terminating zero byte.
RECURSIVE qname_buffer(_)
qname_buffer(qname_parts) ==
    IF Len(qname_parts) = 0 THEN << 0 >>
    ELSE IF Len(Head(qname_parts)) = 0 THEN qname_buffer(Tail(qname_parts))
    ELSE << Len(Head(qname_parts)) >> \o Buffer_from(Head(qname_parts))
             \o qname_buffer(Tail(qname_parts))

\* The result is [st, bytes]: writeUInt8 throws for a part longer than 255
\* units (st = "err"), and that is the only length the function refuses.
build_query(service_query) ==
    LET full_service_query == service_query \o LOCAL_SUFFIX
        qname_parts == split(full_service_query, 46)
        header == << 0, 0, 0, 0, 0, 1, 0, 0, 0, 0, 0, 0 >>
        question == << 0, 12, 0, 1 >>
    IN IF \E i \in 1..Len(qname_parts) : Len(qname_parts[i]) > 255
       THEN [st |-> "err", bytes |-> << >>]
       ELSE [st |-> "ok", bytes |-> header \o qname_buffer(qname_parts) \o question]

(***************************************************************************)
(* read_name.  The result is [st, name, read_bytes]: st = "ok" when the    *)
(* function returns, "err" when it throws, "loop" when its while (true)    *)
(* never exits.  The loop's control state is the offset alone, so reaching *)
(* a pointer a second time means it is reached for ever (or until the      *)
(* label array exhausts memory); visited holds the pointers followed.      *)
(***************************************************************************)
NameErr == [st |-> "err", name |-> << >>, read_bytes |-> 0]
NameLoop == [st |-> "loop", name |-> << >>, read_bytes |-> 0]

\* Faulty variant: the position reached in the pointed-to data is reported.
read_bytes_followed(jumped, original_offset, offset) == offset

\* read_bytes: jumped ? original_offset : offset
read_bytes(jumped, original_offset, offset) == IF jumped THEN original_offset ELSE offset

RECURSIVE read_name_loop(_, _, _, _, _, _)
read_name_loop(buffer, offset, labels, jumped, original_offset, visited) ==
    IF ~CanRead(buffer, offset, 1) THEN NameErr
    ELSE LET length == readUInt8(buffer, offset)
         IN IF length = 0
            THEN [st |-> "ok", name |-> join(labels, DOT),
                  read_bytes |-> read_bytes(jumped, original_offset, offset + 1)]
            ELSE IF length >= 192
            THEN IF ~CanRead(buffer, offset + 1, 1) THEN NameErr
                 ELSE IF offset \in visited THEN NameLoop
                 ELSE read_name_loop(buffer,
                                     (length % 64) * 256 + readUInt8(buffer, offset + 1),
                                     labels, TRUE,
                                     IF jumped THEN original_offset ELSE offset + 2,
                                     visited \cup {offset})
            ELSE read_name_loop(buffer, offset + 1 + length,
                                Append(labels, toString(buffer, offset + 1, offset + 1 + length)),
                                jumped, original_offset, visited)

read_name(buffer, offset) == read_name_loop(buffer, offset, << >>, FALSE, offset, {})

(***************************************************************************)
(* parse_record.  The result is [st, rec, offset] with st as for           *)
(* read_name; rec = [name, type, cls, ttl, rdlength, rdata].  rdata is a   *)
(* name (PTR), [priority, weight, port, target] (SRV), a mapping from key  *)
(* to [flag, value] (TXT; flag is TRUE for an entry without '=', which     *)
(* JavaScript stores as the boolean true), a dotted text (A) or the raw    *)
(* bytes (any other type).                                                 *)
(***************************************************************************)
NoRec ==
    [name |-> << >>, type |-> 0, cls |-> 0, ttl |-> << 0, 0 >>, rdlength |-> 0, rdata |-> << >>]
RecErr == [st |-> "err", rec |-> NoRec, offset |-> 0]
RecLoop == [st |-> "loop", rec |-> NoRec, offset |-> 0]

\* "__proto__", the key of the prototype accessor every object literal
\* inherits.
PROTO_KEY == << 95, 95, 112, 114, 111, 116, 111, 95, 95 >>

\* txts[key] = value on a JavaScript object literal: the key's entry is
\* replaced; under the key "__proto__" the assignment of a string or of
\* true calls the inherited setter, which ignores it, and no entry is made.
SetKey(txts, key, val) ==
    IF key = PROTO_KEY THEN txts
    ELSE [k \in (DOMAIN txts) \cup {key} |-> IF k = key THEN val ELSE txts[k]]

\* One TXT sub-string: split at its first '=', or the whole text mapped to true.
txt_entry(txts, txt) ==
    LET equal_index == indexOf(txt, 61)
    IN IF equal_index # -1
       THEN SetKey(txts, SubSeq(txt, 1, equal_index),
                   [flag |-> FALSE, value |-> SubSeq(txt, equal_index + 2, Len(txt))])
       ELSE SetKey(txts, txt, [flag |-> TRUE, value |-> << >>])

\* The TXT loop: while (offset < end).  Result [st, txts, offset].
RECURSIVE txt_loop(_, _, _, _)
txt_loop(buffer, offset, end, txts) ==
    IF ~(offset < end) THEN [st |-> "ok", txts |-> txts, offset |-> offset]
    ELSE IF ~CanRead(buffer, offset, 1) THEN [st |-> "err", txts |-> txts, offset |-> offset]
    ELSE LET txt_len == readUInt8(buffer, offset)
             txt == toString(buffer, offset + 1, offset + 1 + txt_len)
         IN txt_loop(buffer, offset + 1 + txt_len, end, txt_entry(txts, txt))

\* The A branch: one decimal component per rdata byte, joined by dots.
ip_text(buffer, offset, rdlength) ==
    join([i \in 1..rdlength |-> decimal(readUInt8(buffer, offset + i - 1))], DOT)

\* Faulty variant: the rdata is not skipped.
next_offset_stay(offset, rdlength) == offset

\* The position after the rdata of a record that is not a TXT record.
next_offset(offset, rdlength) == offset + rdlength

\* The position a TXT record reports: where its sub-string loop stopped.
txt_next_offset(loop_offset, offset, rdlength) == loop_offset

parse_rdata(buffer, name, type, cls, ttl, rdlength, offset) ==
    LET Done(rdata, off) ==
            [st |-> "ok",
             rec |-> [name |-> name, type |-> type, cls |-> cls, ttl |-> ttl,
                      rdlength |-> rdlength, rdata |-> rdata],
             offset |-> off]
    IN IF type = 12
       THEN LET r == read_name(buffer, offset)
            IN IF r.st = "err" THEN RecErr
               ELSE IF r.st = "loop" THEN RecLoop
               ELSE Done(r.name, next_offset(offset, rdlength))
       ELSE IF type = 33
       THEN IF ~CanRead(buffer, offset, 6) THEN RecErr
            ELSE LET r == read_name(buffer, offset + 6)
                 IN IF r.st = "err" THEN RecErr
                    ELSE IF r.st = "loop" THEN RecLoop
                    ELSE Done([priority |-> readUInt16BE(buffer, offset),
                               weight |-> readUInt16BE(buffer, offset + 2),
                               port |-> readUInt16BE(buffer, offset + 4),
                               target |-> r.name],
                              next_offset(offset, rdlength))
       ELSE IF type = 16
       THEN LET t == txt_loop(buffer, offset, offset + rdlength, << >>)
            IN IF t.st = "err" THEN RecErr
               ELSE Done(t.txts, txt_next_offset(t.offset, offset, rdlength))
       ELSE IF type = 1
       THEN IF rdlength > 0 /\ ~CanRead(buffer, offset, rdlength) THEN RecErr
            ELSE Done(ip_text(buffer, offset, rdlength), next_offset(offset, rdlength))
       ELSE Done(slice(buffer, offset, offset + rdlength), next_offset(offset, rdlength))

parse_record(buffer, offset) ==
    LET name_result == read_name(buffer, offset)
        o == name_result.read_bytes
    IN IF name_result.st = "err" THEN RecErr
       ELSE IF name_result.st = "loop" THEN RecLoop
       ELSE IF ~CanRead(buffer, o, 10) THEN RecErr
       ELSE parse_rdata(buffer, name_result.name,
                        readUInt16BE(buffer, o), readUInt16BE(buffer, o + 2),
                        readUInt32BE(buffer, o + 4), readUInt16BE(buffer, o + 8), o + 10)

(***************************************************************************)
(* parse_dns_message.  The result is [st, header, records]; on "err" and   *)
(* "loop" no record list is returned.                                      *)
(***************************************************************************)
NoHeader == [id |-> 0, flags |-> 0, qdcount |-> 0, ancount |-> 0, nscount |-> 0, arcount |-> 0]
MsgErr == [st |-> "err", header |-> NoHeader, records |-> << >>]
MsgLoop == [st |-> "loop", header |-> NoHeader, records |-> << >>]

\* Skip the question section.  Result [st, offset].
RECURSIVE skip_questions(_, _, _)
skip_questions(buffer, offset, n) ==
    IF n = 0 THEN [st |-> "ok", offset |-> offset]
    ELSE LET res == read_name(buffer, offset)
         IN IF res.st # "ok" THEN [st |-> res.st, offset |-> 0]
            ELSE skip_questions(buffer, res.read_bytes + 4, n - 1)

\* The record loop.  Result [st, records].
RECURSIVE parse_records(_, _, _, _)
parse_records(buffer, offset, n, records) ==
    IF n = 0 THEN [st |-> "ok", records |-> records]
    ELSE LET record == parse_record(buffer, offset)
         IN IF record.st # "ok" THEN [st |-> record.st, records |-> << >>]
            ELSE parse_records(buffer, record.offset, n - 1,
                               Append(records, record.rec @@ [offset |-> record.offset]))

parse_dns_message(buffer) ==
    IF ~CanRead(buffer, 0, 12) THEN MsgErr
    ELSE LET header == [id |-> readUInt16BE(buffer, 0),
                        flags |-> readUInt16BE(buffer, 2),
                        qdcount |-> readUInt16BE(buffer, 4),
                        ancount |-> readUInt16BE(buffer, 6),
                        nscount |-> readUInt16BE(buffer, 8),
                        arcount |-> readUInt16BE(buffer, 10)]
             q == skip_questions(buffer, 12, header.qdcount)
         IN IF q.st = "err" THEN MsgErr
            ELSE IF q.st = "loop" THEN MsgLoop
            ELSE LET r == parse_records(buffer, q.offset,
                                        header.ancount + header.nscount + header.arcount, << >>)
                 IN IF r.st = "err" THEN MsgErr
                    ELSE IF r.st = "loop" THEN MsgLoop
                    ELSE [st |-> "ok", header |-> header, records |-> r.records]

(***************************************************************************)
(* is_smart_ip_service                                                     *)
(***************************************************************************)
is_smart_ip_service(name, full_service_query) ==
    name = full_service_query \/ endsWith(name, DOT \o full_service_query)

(***************************************************************************)
(* The tracked entries: the services object of start_mdns_listener, in     *)
(* insertion order.  An entry is [name, port, target, txt, addresses];     *)
(* every field but name is optional and starts undefined.                  *)
(***************************************************************************)
NewEntry(name) ==
    [name |-> name, port |-> << >>, target |-> << >>, txt |-> << >>, addresses |-> << >>]

\* services[key] is set (an entry is always truthy).
HasEntry(services, key) == \E i \in 1..Len(services) : services[i].name = key

EntryIndex(services, key) == CHOOSE i \in 1..Len(services) : services[i].name = key

\* if (!services[key]) services[key] = { name: key }
ensure_entry(services, key) ==
    IF HasEntry(services, key) THEN services ELSE Append(services, NewEntry(key))

\* The PTR branch: creates the entry of the instance the record points to.
apply_ptr(services, rec) == ensure_entry(services, rec.rdata)

\* The SRV branch: creates the entry if absent, then sets port and target.
apply_srv(services, rec) ==
    LET s == ensure_entry(services, rec.name)
        i == EntryIndex(s, rec.name)
    IN [s EXCEPT ![i].port = << rec.rdata.port >>, ![i].target = << rec.rdata.target >>]

\* The TXT branch: creates the entry if absent, then replaces txt.
apply_txt(services, rec) ==
    LET s == ensure_entry(services, rec.name)
        i == EntryIndex(s, rec.name)
    IN [s EXCEPT ![i].txt = << rec.rdata >>]

\* Faulty variant: the A record is matched against the entry's name, not its target.
apply_a_by_name(services, rec) ==
    [i \in 1..Len(services) |->
        IF services[i].name = rec.name
        THEN [services[i] EXCEPT
                 !.addresses = << (IF services[i].addresses = << >> THEN << >>
                                   ELSE services[i].addresses[1]) \o << rec.rdata >> >>]
        ELSE services[i]]

\* Faulty variant: the address is pushed on every entry.
apply_a_all(services, rec) ==
    [i \in 1..Len(services) |->
        [services[i] EXCEPT
            !.addresses = << (IF services[i].addresses = << >> THEN << >>
                              ELSE services[i].addresses[1]) \o << rec.rdata >> >>]]

\* The A branch: pushes the address on every entry whose target is the owner.
apply_a(services, rec) ==
    [i \in 1..Len(services) |->
        IF services[i].target = << rec.name >>
        THEN [services[i] EXCEPT
                 !.addresses = << (IF services[i].addresses = << >> THEN << >>
                                   ELSE services[i].addresses[1]) \o << rec.rdata >> >>]
        ELSE services[i]]

\* One iteration of the record loop of the 'message' handler.
apply_record(services, rec, full_service_query) ==
    IF rec.type = 12 /\ rec.name = full_service_query THEN apply_ptr(services, rec)
    ELSE IF rec.type = 33 /\ is_smart_ip_service(rec.name, full_service_query)
    THEN apply_srv(services, rec)
    ELSE IF rec.type = 16 /\ is_smart_ip_service(rec.name, full_service_query)
    THEN apply_txt(services, rec)
    ELSE IF rec.type = 1 THEN apply_a(services, rec)
    ELSE services

RECURSIVE apply_records(_, _, _)
apply_records(services, records, full_service_query) ==
    IF Len(records) = 0 THEN services
    ELSE apply_records(apply_record(services, Head(records), full_service_query),
                       Tail(records), full_service_query)

(***************************************************************************)
(* The notification loop of the 'message' handler.  The object handed to   *)
(* on_service_found is new, with the port copied, the txt object shared    *)
(* (it is never modified once stored) and, when the entry has an addresses *)
(* array, that same array: alias names the entry whose array it is, and is *)
(* undefined when the object got a new empty array of its own.             *)
(***************************************************************************)
\* Faulty variant: the loop emits every tracked entry.
is_emitted_always(entry, full_service_query) == TRUE

\* Whether the loop emits the entry (the `continue` test).
is_emitted(entry, full_service_query) == is_smart_ip_service(entry.name, full_service_query)

display_name(name, full_service_query) ==
    LET suffix == DOT \o full_service_query
    IN IF endsWith(name, suffix) THEN SubSeq(name, 1, Len(name) - Len(suffix)) ELSE name

service_object(entry, full_service_query) ==
    [name |-> display_name(entry.name, full_service_query),
     alias |-> IF entry.addresses = << >> THEN << >> ELSE << entry.name >>,
     port |-> entry.port,
     properties |-> IF entry.txt = << >> THEN << >> ELSE entry.txt[1]]

\* The objects the loop builds, in the order of the for-in over services.
RECURSIVE emitted(_, _)
emitted(services, full_service_query) ==
    IF Len(services) = 0 THEN << >>
    ELSE (IF is_emitted(Head(services), full_service_query)
          THEN << service_object(Head(services), full_service_query) >> ELSE << >>)
         \o emitted(Tail(services), full_service_query)

\* The wrapper both searches install as options.on_service_found: the first
\* object seen under a name is kept in the unique_services Map.
HasName(unique_services, name) ==
    \E i \in 1..Len(unique_services) : unique_services[i].name = name

\* Faulty variant: the wrapper stores every object it is called with.
wrapped_always_adds(unique_services, service) == Append(unique_services, service)

wrapped_on_service_found(unique_services, service) ==
    IF HasName(unique_services, service.name) THEN unique_services
    ELSE Append(unique_services, service)

RECURSIVE add_all(_, _)
add_all(unique_services, objects) ==
    IF Len(objects) = 0 THEN unique_services
    ELSE add_all(wrapped_on_service_found(unique_services, Head(objects)), Tail(objects))

\* What a caller reading a service object sees: the addresses are read
\* through the shared array.
Device(obj, services) ==
    [name |-> obj.name,
     addresses |-> IF obj.alias = << >> THEN << >>
                   ELSE services[EntryIndex(services, obj.alias[1])].addresses[1],
     port |-> obj.port,
     properties |-> obj.properties]

Devices(objects, services) == [i \in 1..Len(objects) |-> Device(objects[i], services)]

(***************************************************************************)
(* Inbound datagrams.  A datagram is named by the sequence of the records  *)
(* it carries (or by << "BAD" >>, << "LOOP" >>) and Wire gives its bytes:  *)
(* a header, the echoed question for SERVICE_QUERY + ".local" at offset    *)
(* 12, and the records, whose names use compression pointers into the      *)
(* question (offset 12: the whole name, offset 18: its "local" label).     *)
(***************************************************************************)
\* "_s._t", and the names the responders use.
SERVICE_QUERY == << 95, 115, 46, 95, 116 >>
FULL_SERVICE_QUERY == SERVICE_QUERY \o LOCAL_SUFFIX
INSTANCE_D == << 100, 46 >> \o FULL_SERVICE_QUERY
HOST_H == << 104 >> \o LOCAL_SUFFIX
FOREIGN_X == << 120, 46, 95, 111 >> \o LOCAL_SUFFIX
ADDRESS_H == << 49, 48, 46, 48, 46, 48, 46, 53 >>

WireU16(n) == << n \div 256, n % 256 >>

WireRecord(owner, type, rdata) ==
    owner \o WireU16(type) \o << 0, 1, 0, 0, 0, 120 >> \o WireU16(Len(rdata)) \o rdata

WireQuestion == << 2, 95, 115, 2, 95, 116, 5, 108, 111, 99, 97, 108, 0, 0, 12, 0, 1 >>

WireOf(tag) ==
    CASE tag = "P" -> WireRecord(<< 192, 12 >>, 12, << 1, 100, 192, 12 >>)
      [] tag = "S" -> WireRecord(<< 1, 100, 192, 12 >>, 33,
                                 << 0, 0, 0, 0, 20, 233, 1, 104, 192, 18 >>)
      [] tag = "T" -> WireRecord(<< 1, 100, 192, 12 >>, 16, << 3, 107, 61, 118 >>)
      [] tag = "A" -> WireRecord(<< 1, 104, 192, 18 >>, 1, << 10, 0, 0, 5 >>)
      [] tag = "P2" -> WireRecord(<< 192, 12 >>, 12, << 1, 101, 192, 12 >>)
      [] tag = "X" -> WireRecord(<< 192, 12 >>, 12, << 1, 120, 2, 95, 111, 192, 18 >>)
      [] tag = "O" -> WireRecord(<< 2, 95, 111, 192, 18 >>, 12, << 1, 120, 2, 95, 111, 192, 18 >>)
      [] tag = "U" -> WireRecord(<< 1, 100, 192, 12 >>, 99, << 7, 7, 7 >>)
      [] tag = "SELF" -> WireRecord(<< 192, 29 >>, 12, << 1, 100, 192, 12 >>)
      [] tag = "PQ" -> WireRecord(<< 192, 12 >>, 12, << 192, 12 >>)
      [] tag = "A2" -> WireRecord(<< 1, 120, 192, 18 >>, 1, << 10, 0, 0, 6 >>)
      [] tag = "TO" -> WireRecord(<< 1, 100, 192, 12 >>, 16, << 3, 107 >>)
      [] tag = "T0" -> WireRecord(<< 1, 100, 192, 12 >>, 16, << >>)
      [] tag = "TM" -> WireRecord(<< 1, 100, 192, 12 >>, 16,
                                  << 5, 107, 61, 118, 61, 119, 1, 98, 0 >>)
      [] tag = "TD" -> WireRecord(<< 1, 100, 192, 12 >>, 16,
                                  << 3, 107, 61, 118, 3, 107, 61, 119 >>)
      [] tag = "TP" -> WireRecord(<< 1, 100, 192, 12 >>, 16,
                                  << 11 >> \o PROTO_KEY \o << 61, 120 >>)
      [] tag = "PQQ" -> WireRecord(<< 192, 12 >>, 12,
                                   << 2, 95, 115, 2, 95, 116, 5, 108, 111, 99, 97, 108,
                                      192, 12 >>)

RECURSIVE WireRecords(_)
WireRecords(tags) ==
    IF Len(tags) = 0 THEN << >> ELSE WireOf(Head(tags)) \o WireRecords(Tail(tags))

WireMessage(tags) ==
    << 0, 0, 132, 0, 0, 1 >> \o WireU16(Len(tags)) \o << 0, 0, 0, 0 >>
        \o WireQuestion \o WireRecords(tags)

\* "BAD": a well-formed PTR followed by an SRV cut short; "LOOP": a record
\* whose owner name is a compression pointer to itself.
Wire(d) ==
    IF d = << "BAD" >>
    THEN LET m == WireMessage(<< "P", "S" >>) IN SubSeq(m, 1, Len(m) - 3)
    ELSE IF d = << "LOOP" >> THEN WireMessage(<< "SELF" >>)
    ELSE WireMessage(d)

\* The datagrams a responder may send during a session.
Datagrams ==
    { << "P" >>, << "S" >>, << "A" >>, << "A2" >>, << "P", "S", "A" >>,
      << "P", "S", "T", "A" >>, << "O", "X", "P2" >>, << "P", "U", "P" >>, << "BAD" >>,
      << "LOOP" >> }

\* The number of datagrams received in a session.
MaxMsgs == 2

(***************************************************************************)
(* The session: one call of search_mdns_services (api = "cb") or of        *)
(* search_mdns_servicesmv1 (api = "mv1").                                  *)
(***************************************************************************)
VARIABLES
    api,             \* which of the two searches was called
    has_complete,    \* options.on_search_complete is a function
    has_found,       \* options.on_service_found is a function
    found_other,     \* options.on_service_found is a truthy value that is no function
    options_timeout, \* options.timeout
    options_interface, \* options.interface
    call,            \* the search call: [st, delay, local_interface]
    sock,            \* "binding", "bound" or "closed"
    joined,          \* addMembership returned
    send,            \* the query: "none", "pending", "ok" or "err"
    sent,            \* number of calls of socket.send
    timer,           \* the setTimeout: "armed" or "fired"
    services,        \* the tracked entries of start_mdns_listener
    unique_services, \* the Map of the search, in insertion order
    found,           \* the objects the caller's on_service_found got from the last datagram
    delivered,       \* the final lists handed to the caller: [chan, list]
    hung,            \* the event loop is inside a read_name that never returns
    crashed,         \* the timeout callback threw
    bind_failed,     \* the socket emitted 'error' while binding
    join_failed,     \* addMembership threw
    rx,              \* the datagrams the 'message' handler was called with
    feed,            \* a scripted responder: the datagrams still to come
    stopped,         \* the caller closed the socket the search returned
    peer,            \* a second search of the same process
    codec            \* a use of the codec on its own: [step, name, buffer, offset, out]

vars ==
    << api, has_complete, has_found, found_other, options_timeout, options_interface, call,
       sock, joined, send, sent, timer, services, unique_services, found, delivered, hung,
       crashed, bind_failed, join_failed, rx, feed, stopped, peer, codec >>

\* The options of the search and what the call made of them.
config == << api, has_complete, has_found, found_other, options_timeout, options_interface, call >>

\* What a step of the first search leaves alone.
aside == << peer, codec >>

\* The event loop runs callbacks: it is not blocked and the process is alive.
Running == ~hung /\ ~crashed

(***************************************************************************)
(* The search call.  options.timeout is [type, num]: undefined, a number   *)
(* or a non-empty string that is no number; options.interface is an        *)
(* optional string.  The result of the call is [st, delay,                 *)
(* local_interface]: st is "returned" (neither search has a throw          *)
(* statement), delay is what the timer is armed with, local_interface the  *)
(* address the socket is asked to bind.                                    *)
(***************************************************************************)
Undefined == [type |-> "undefined", num |-> 0]
Number(n) == [type |-> "number", num |-> n]
NotANumber == [type |-> "string", num |-> 0]

\* JavaScript truthiness of an options.timeout.
Truthy(v) == v.type = "string" \/ (v.type = "number" /\ v.num # 0)

DEFAULT_TIMEOUT == 5000

\* "169.254.137.22"
DEFAULT_INTERFACE == << 49, 54, 57, 46, 50, 53, 52, 46, 49, 51, 55, 46, 50, 50 >>

\* const timeout = ... of the two searches.
timeout(which, t) ==
    IF which = "cb"
    THEN (IF Truthy(t) THEN t ELSE Number(DEFAULT_TIMEOUT))
    ELSE (IF t.type = "number" /\ t.num > 0 THEN t ELSE Number(DEFAULT_TIMEOUT))

\* setTimeout(callback, after): a delay that is no number of at least 1 is
\* taken as 1.
setTimeout(after) == IF after.type = "number" /\ after.num >= 1 THEN after.num ELSE 1

\* const local_interface = options.interface || '169.254.137.22'
local_interface(interface) ==
    IF interface = << >> \/ interface[1] = << >> THEN DEFAULT_INTERFACE ELSE interface[1]

NotCalled == [st |-> "pending", delay |-> 0, local_interface |-> << >>]

search_call(which, t, interface) ==
    [st |-> "returned", delay |-> setTimeout(timeout(which, t)),
     local_interface |-> local_interface(interface)]

\* "10.0.0.2", an address of the machine.
INTERFACE_ADDRESS == << 49, 48, 46, 48, 46, 48, 46, 50 >>

\* No second search, and no use of the codec on its own.  A second search is
\* [started, shared, api, sock, timer, services, unique_services, delivered,
\* feed]; shared says it was called with the options object of the first.
NoPeer ==
    [started |-> FALSE, shared |-> FALSE, api |-> "cb", sock |-> "none", timer |-> "none",
     services |-> << >>, unique_services |-> << >>, delivered |-> << >>, feed |-> << >>]
NoCodec ==
    [step |-> "idle", name |-> << >>, type |-> 0, rdata |-> << >>, buffer |-> << >>,
     offset |-> 0, target |-> 0, tags |-> << >>, cut |-> 0, out |-> << >>]

\* The call of search_mdns_services or search_mdns_servicesmv1: creates the
\* socket and requests its bind (start_mdns_listener), arms the timeout.
SearchCall ==
    /\ call.st = "pending"
    /\ call' = search_call(api, options_timeout, options_interface)
    /\ sock' = "binding"
    /\ timer' = "armed"
    /\ UNCHANGED << api, has_complete, has_found, found_other, options_timeout,
                    options_interface, aside, stopped, joined, send, sent, services,
                    unique_services, found, delivered, hung, crashed, bind_failed,
                    join_failed, rx, feed >>

\* The state when the search call returns: the socket is created and its
\* bind requested (start_mdns_listener), the timeout is armed.  The caller
\* gave an interface, no timeout, and callbacks that are functions.
Init ==
    /\ api \in {"cb", "mv1"}
    /\ has_complete \in BOOLEAN
    /\ has_found \in BOOLEAN
    /\ found_other = FALSE
    /\ options_timeout = Undefined
    /\ options_interface = << INTERFACE_ADDRESS >>
    /\ call = search_call(api, options_timeout, options_interface)
    /\ stopped = FALSE
    /\ peer = NoPeer
    /\ codec = NoCodec
    /\ sock = "binding"
    /\ joined = FALSE
    /\ send = "none"
    /\ sent = 0
    /\ timer = "armed"
    /\ services = << >>
    /\ unique_services = << >>
    /\ found = << >>
    /\ delivered = << >>
    /\ hung = FALSE
    /\ crashed = FALSE
    /\ bind_failed = FALSE
    /\ join_failed = FALSE
    /\ rx = << >>
    /\ feed = << >>

\* socket.close(): closes an open socket; on a closed one it throws
\* (ERR_SOCKET_DGRAM_NOT_RUNNING).
close_throws(socket) == socket = "closed"

\* Faulty variant: the query is sent whether or not the join succeeded.
bind_callback_sending(join_ok) ==
    [joined |-> join_ok, join_failed |-> ~join_ok, send |-> "pending", sent |-> 1]

\* The bind callback: join the group, build the query and send it; an
\* exception of addMembership or build_query is caught and logged.
bind_callback(join_ok) ==
    LET ok == join_ok /\ build_query(SERVICE_QUERY).st = "ok"
    IN [joined |-> join_ok, join_failed |-> ~join_ok,
        send |-> IF ok THEN "pending" ELSE "none",
        sent |-> IF ok THEN 1 ELSE 0]

BindOk ==
    /\ Running /\ sock = "binding"
    /\ \E join_ok \in BOOLEAN :
          \E r \in {bind_callback(join_ok)} :
             /\ joined' = r.joined
             /\ join_failed' = r.join_failed
             /\ send' = r.send
             /\ sent' = sent + r.sent
    /\ sock' = "bound"
    /\ UNCHANGED << config, aside, stopped, timer, services, unique_services, found,
                    delivered, hung, crashed, bind_failed, rx, feed >>

\* The 'error' handler: logs and closes the socket.
error_handler(socket) == "closed"

BindFail ==
    /\ Running /\ sock = "binding"
    /\ sock' = error_handler(sock)
    /\ bind_failed' = TRUE
    /\ UNCHANGED << config, aside, stopped, joined, send, sent, timer, services,
                    unique_services, found, delivered, hung, crashed, join_failed, rx,
                    feed >>

\* An 'error' event of the bound socket (a failed receive).
SocketError ==
    /\ Running /\ sock = "bound"
    /\ sock' = error_handler(sock)
    /\ UNCHANGED << config, aside, stopped, joined, send, sent, timer, services,
                    unique_services, found, delivered, hung, crashed, bind_failed,
                    join_failed, rx, feed >>

\* Faulty variant: a send error closes the socket.
SendDone_aborting ==
    /\ Running /\ send = "pending"
    /\ \E err \in BOOLEAN :
          /\ send' = IF err THEN "err" ELSE "ok"
          /\ sock' = IF err THEN "closed" ELSE sock
    /\ UNCHANGED << config, aside, stopped, joined, sent, timer, services,
                    unique_services, found, delivered, hung, crashed, bind_failed,
                    join_failed, rx, feed >>

\* The send callback: logs the error or the success.
SendDone ==
    /\ Running /\ send = "pending"
    /\ \E err \in BOOLEAN : send' = IF err THEN "err" ELSE "ok"
    /\ UNCHANGED << config, aside, stopped, sock, joined, sent, timer, services,
                    unique_services, found, delivered, hung, crashed, bind_failed,
                    join_failed, rx, feed >>

\* The caller closes the socket search_mdns_services returned.
ExternalClose ==
    /\ Running /\ api = "cb" /\ sock # "closed" /\ timer = "armed"
    /\ sock' = "closed"
    /\ stopped' = TRUE
    /\ UNCHANGED << config, aside, joined, send, sent, timer, services, unique_services,
                    found, delivered, hung, crashed, bind_failed, join_failed, rx, feed >>

(***************************************************************************)
(* The 'message' handler.  Its result is [st, services, unique_services,   *)
(* found]: the message is parsed first, so a parse that throws is caught   *)
(* before any record was applied (st = "err") and a parse that never       *)
(* returns blocks the event loop (st = "loop").  throw_at is the caller's  *)
(* on_service_found: the number of the call in which it throws, 0 when it  *)
(* returns every time; the exception ends the notification loop.           *)
(***************************************************************************)
\* The notification loop over the emitted objects: the wrapper stores each
\* object, then calls the caller's function, whose exception ends the loop.
notify(s, uniq, objects, caller_found, throw_at) ==
    [st |-> "ok", services |-> s,
     unique_services |->
         add_all(uniq, SubSeq(objects, 1,
                              IF caller_found /\ throw_at > 0 /\ throw_at <= Len(objects)
                              THEN throw_at ELSE Len(objects))),
     found |->
         IF caller_found
         THEN Devices(SubSeq(objects, 1,
                             IF throw_at > 0 /\ throw_at <= Len(objects)
                             THEN throw_at ELSE Len(objects)), s)
         ELSE << >>]

\* The body of the try block once the message is parsed.
handle_parsed(srv, uniq, parsed, caller_found, throw_at) ==
    IF parsed.st # "ok"
    THEN [st |-> parsed.st, services |-> srv, unique_services |-> uniq, found |-> << >>]
    ELSE notify(apply_records(srv, parsed.records, FULL_SERVICE_QUERY), uniq,
                emitted(apply_records(srv, parsed.records, FULL_SERVICE_QUERY),
                        FULL_SERVICE_QUERY),
                caller_found, throw_at)

\* Faulty variant: a first record that decodes is applied although a later
\* part of the message does not decode.
message_handler_partial(srv, uniq, msg, caller_found, throw_at) ==
    IF parse_dns_message(msg).st = "ok" \/ parse_record(msg, 12 + Len(WireQuestion)).st # "ok"
    THEN handle_parsed(srv, uniq, parse_dns_message(msg), caller_found, throw_at)
    ELSE [st |-> "err",
          services |-> apply_records(srv, << parse_record(msg, 12 + Len(WireQuestion)).rec >>,
                                     FULL_SERVICE_QUERY),
          unique_services |-> uniq, found |-> << >>]

message_handler(srv, uniq, msg, caller_found, throw_at) ==
    handle_parsed(srv, uniq, parse_dns_message(msg), caller_found, throw_at)

\* What the wrapper of the search calls after storing the object: the
\* caller's function ("function"), a truthy value that is no function, whose
\* call throws a TypeError ("other": search_mdns_services tests truthiness
\* only), or nothing ("null").
original_on_service_found(which) ==
    IF has_found THEN "function"
    ELSE IF found_other /\ which = "cb" THEN "other"
    ELSE "null"

\* The 'message' handler of a search whose wrapper calls `original`: the
\* call of a value that is no function throws in the first notification,
\* and the caller's function got nothing.
handler_result(original, srv, uniq, msg, throw_at) ==
    IF original = "function" THEN message_handler(srv, uniq, msg, TRUE, throw_at)
    ELSE IF original = "other"
    THEN [message_handler(srv, uniq, msg, TRUE, 1) EXCEPT !.found = << >>]
    ELSE message_handler(srv, uniq, msg, FALSE, 0)

\* The caller's on_service_found may throw in any one of its calls: there
\* are at most as many calls as entries tracked after the datagram.
ThrowPoints(d) == IF has_found THEN 0..(Len(services) + Len(d)) ELSE {0}

ReceiveWith(d, throw_at) ==
    \E r \in {handler_result(original_on_service_found(api), services, unique_services,
                              Wire(d), throw_at)} :
       /\ throw_at <= Len(r.found)
       /\ rx' = Append(rx, d)
       /\ hung' = (r.st = "loop")
       /\ services' = r.services
       /\ unique_services' = r.unique_services
       /\ found' = r.found

Receive(d) == \E throw_at \in ThrowPoints(d) : ReceiveWith(d, throw_at)

\* Faulty variant: the handler also hands the current list to on_search_complete.
OnMessage_releasing ==
    /\ Running /\ sock = "bound" /\ Len(rx) < MaxMsgs
    /\ \E d \in Datagrams : Receive(d)
    /\ delivered' = Append(delivered, [chan |-> "callback",
                                       list |-> Devices(unique_services', services')])
    /\ UNCHANGED << config, aside, stopped, sock, joined, send, sent, timer, crashed,
                    bind_failed, join_failed, feed >>

OnMessage ==
    /\ Running /\ sock = "bound" /\ Len(rx) < MaxMsgs
    /\ \E d \in Datagrams : Receive(d)
    /\ UNCHANGED << config, aside, stopped, sock, joined, send, sent, timer, delivered,
                    crashed, bind_failed, join_failed, feed >>

(***************************************************************************)
(* The timeout callback of the two searches.  Its result is [sock,         *)
(* crashed, delivered]: socket.close() comes first, and when it throws     *)
(* nothing after it runs.                                                  *)
(***************************************************************************)
search_timeout(which, socket, uniq, srv, complete) ==
    LET uniqueServiceArray == Devices(uniq, srv)
    IN IF close_throws(socket)
       THEN [sock |-> socket, crashed |-> TRUE, delivered |-> << >>]
       ELSE [sock |-> "closed", crashed |-> FALSE,
             delivered |->
                 (IF complete THEN << [chan |-> "callback", list |-> uniqueServiceArray] >>
                  ELSE << >>)
                 \o (IF which = "mv1"
                     THEN << [chan |-> "promise", list |-> uniqueServiceArray] >>
                     ELSE << >>)]

\* The entries whose addresses array an object of the first search's Map may
\* share: its own and, under a mark, those of a second search whose
\* notifications reach its wrapper.
Foreign(name) == << 0 >> \o name

Heap ==
    services \o (IF peer.started /\ peer.shared
                  THEN [i \in 1..Len(peer.services) |->
                           [peer.services[i] EXCEPT !.name = Foreign(@)]]
                  ELSE << >>)

Timeout ==
    /\ Running /\ timer = "armed"
    /\ timer' = "fired"
    /\ \E r \in {search_timeout(api, sock, unique_services, Heap, has_complete)} :
          /\ sock' = r.sock
          /\ crashed' = r.crashed
          /\ delivered' = delivered \o r.delivered
    /\ UNCHANGED << config, aside, stopped, joined, send, sent, services, unique_services,
                    found, hung, bind_failed, join_failed, rx, feed >>

\* The timeout callback of the second search.
PeerTimeout ==
    /\ Running /\ peer.started /\ peer.timer = "armed"
    /\ \E r \in {search_timeout(peer.api, peer.sock, peer.unique_services, peer.services,
                                  has_complete)} :
          /\ peer' = [peer EXCEPT !.timer = "fired", !.sock = r.sock,
                                   !.delivered = @ \o r.delivered]
          /\ crashed' = r.crashed
    /\ UNCHANGED << config, codec, stopped, sock, joined, send, sent, timer, services,
                    unique_services, found, delivered, hung, bind_failed, join_failed,
                    rx, feed >>

\* A datagram that reaches the sockets of both searches, each called with
\* its own options object of the same content: the caller's
\* on_service_found behaves in the second as in the first.
PairMessage ==
    /\ Running /\ sock = "bound" /\ Len(rx) < MaxMsgs
    /\ peer.started /\ ~peer.shared /\ peer.sock = "bound"
    /\ \E d \in Datagrams :
          \E throw_at \in ThrowPoints(d) :
             /\ ReceiveWith(d, throw_at)
             /\ \E r \in {handler_result(original_on_service_found(peer.api), peer.services,
                                          peer.unique_services, Wire(d), throw_at)} :
                   peer' = [peer EXCEPT !.services = r.services,
                                        !.unique_services = r.unique_services]
    /\ UNCHANGED << config, codec, stopped, sock, joined, send, sent, timer, delivered,
                    crashed, bind_failed, join_failed, feed >>

\* A second search called with the options object of the first finds the
\* first search's wrapper in options.on_service_found and wraps it in turn
\* (341-350, 384-392): its listener calls its own wrapper, which stores the
\* object in its own Map and calls the first wrapper, which stores the same
\* object in the first Map and calls the caller's value.  The number of
\* objects so stored out of n emitted ones:
stored_count(n, original, throw_at) ==
    IF original = "other" THEN Min2(1, n)
    ELSE IF original = "function" /\ throw_at > 0 /\ throw_at <= n THEN throw_at
    ELSE n

\* An object built by the second listener: its addresses array is that of
\* an entry of the second search.
foreign_object(obj) ==
    [obj EXCEPT !.alias = IF @ = << >> THEN << >> ELSE << Foreign(@[1]) >>]

foreign_objects(st, srv, original, throw_at) ==
    IF st # "ok" THEN << >>
    ELSE [i \in 1..stored_count(Len(emitted(srv, FULL_SERVICE_QUERY)), original, throw_at) |->
             foreign_object(emitted(srv, FULL_SERVICE_QUERY)[i])]

PeerThrowPoints(d) == IF has_found THEN 0..(Len(peer.services) + Len(d)) ELSE {0}

\* The 'message' handler of the second search, called with the options
\* object of the first.
PeerMessage ==
    /\ Running /\ peer.started /\ peer.shared /\ peer.sock = "bound" /\ peer.feed # << >>
    /\ \E throw_at \in PeerThrowPoints(Head(peer.feed)) :
          \E r \in {handler_result(original_on_service_found(api), peer.services,
                                   peer.unique_services, Wire(Head(peer.feed)), throw_at)} :
             /\ throw_at <= Len(r.found)
             /\ peer' = [peer EXCEPT !.services = r.services,
                                     !.unique_services = r.unique_services,
                                     !.feed = Tail(@)]
             /\ unique_services' =
                    add_all(unique_services,
                            foreign_objects(r.st, r.services, original_on_service_found(api),
                                            throw_at))
             /\ found' = r.found
             /\ hung' = (r.st = "loop")
    /\ UNCHANGED << config, codec, stopped, sock, joined, send, sent, timer, services,
                    delivered, crashed, bind_failed, join_failed, rx, feed >>

Next == BindOk \/ BindFail \/ SocketError \/ SendDone \/ ExternalClose \/ OnMessage \/ Timeout

Spec == Init /\ [][Next]_vars

(***************************************************************************)
(* A scripted responder for the arrival-order property: the PTR, SRV, TXT  *)
(* and A record of one instance, in any order, cut into any number of      *)
(* consecutive datagrams.  The session has bound, joined and sent.         *)
(***************************************************************************)
PermRecords == << "P", "S", "T", "A" >>

ArrivalOrders ==
    { p \in [1..Len(PermRecords) -> {PermRecords[i] : i \in 1..Len(PermRecords)}] :
        \A i, j \in 1..Len(PermRecords) : p[i] = p[j] => i = j }

\* The end of the datagram that starts at record i: the first cut at or after i.
ChunkEnd(p, cuts, i) ==
    IF \E c \in cuts : c >= i
    THEN CHOOSE c \in cuts : c >= i /\ \A c2 \in cuts : c2 >= i => c <= c2
    ELSE Len(p)

RECURSIVE Chunks(_, _, _)
Chunks(p, cuts, i) ==
    IF i > Len(p) THEN << >>
    ELSE << SubSeq(p, i, ChunkEnd(p, cuts, i)) >> \o Chunks(p, cuts, ChunkEnd(p, cuts, i) + 1)

PermFeeds ==
    { Chunks(p, cuts, 1) : p \in ArrivalOrders, cuts \in SUBSET (1..(Len(PermRecords) - 1)) }

InitPerm ==
    /\ api \in {"cb", "mv1"}
    /\ has_complete \in BOOLEAN
    /\ has_found \in BOOLEAN
    /\ found_other = FALSE
    /\ options_timeout = Undefined
    /\ options_interface = << INTERFACE_ADDRESS >>
    /\ call = search_call(api, options_timeout, options_interface)
    /\ stopped = FALSE
    /\ peer = NoPeer
    /\ codec = NoCodec
    /\ sock = "bound"
    /\ joined = TRUE
    /\ send = "ok"
    /\ sent = 1
    /\ timer = "armed"
    /\ services = << >>
    /\ unique_services = << >>
    /\ found = << >>
    /\ delivered = << >>
    /\ hung = FALSE
    /\ crashed = FALSE
    /\ bind_failed = FALSE
    /\ join_failed = FALSE
    /\ rx = << >>
    /\ feed \in PermFeeds

FeedMessage ==
    /\ Running /\ sock = "bound" /\ feed # << >>
    /\ Receive(Head(feed))
    /\ feed' = Tail(feed)
    /\ UNCHANGED << config, aside, stopped, sock, joined, send, sent, timer, delivered,
                    crashed, bind_failed, join_failed >>

NextPerm == FeedMessage \/ Timeout

SpecPerm == InitPerm /\ [][NextPerm]_vars

(***************************************************************************)
(* The search call with every kind of options.timeout and with or without *)
(* options.interface: the state before the call, the call, and the        *)
(* session up to its timeout (no responder answers).                      *)
(***************************************************************************)
TimeoutOptions == { Undefined, Number(200), Number(0), Number(-1), NotANumber }

InterfaceOptions == { << >>, << INTERFACE_ADDRESS >> }

InitCall ==
    /\ api \in {"cb", "mv1"}
    /\ has_complete \in BOOLEAN
    /\ has_found \in BOOLEAN
    /\ found_other = FALSE
    /\ options_timeout \in TimeoutOptions
    /\ options_interface \in InterfaceOptions
    /\ call = NotCalled
    /\ stopped = FALSE
    /\ peer = NoPeer
    /\ codec = NoCodec
    /\ sock = "none"
    /\ joined = FALSE
    /\ send = "none"
    /\ sent = 0
    /\ timer = "none"
    /\ services = << >>
    /\ unique_services = << >>
    /\ found = << >>
    /\ delivered = << >>
    /\ hung = FALSE
    /\ crashed = FALSE
    /\ bind_failed = FALSE
    /\ join_failed = FALSE
    /\ rx = << >>
    /\ feed = << >>

NextCall ==
    SearchCall \/ BindOk \/ BindFail \/ SocketError \/ SendDone \/ ExternalClose \/ Timeout

SpecCall == InitCall /\ [][NextCall]_vars

(***************************************************************************)
(* The two searches side by side: search_mdns_services and                 *)
(* search_mdns_servicesmv1 called with options of the same content (a      *)
(* positive timeout, on_service_found absent, a function or another        *)
(* truthy value), both bound, joined and sent, receiving the same          *)
(* datagrams.                                                              *)
(***************************************************************************)
InitPair ==
    /\ api = "cb"
    /\ has_complete \in BOOLEAN
    /\ has_found \in BOOLEAN
    /\ found_other \in {b \in BOOLEAN : ~(b /\ has_found)}
    /\ options_timeout = Number(DEFAULT_TIMEOUT)
    /\ options_interface = << INTERFACE_ADDRESS >>
    /\ call = search_call(api, options_timeout, options_interface)
    /\ stopped = FALSE
    /\ peer = [NoPeer EXCEPT !.started = TRUE, !.api = "mv1", !.sock = "bound",
                              !.timer = "armed"]
    /\ codec = NoCodec
    /\ sock = "bound"
    /\ joined = TRUE
    /\ send = "ok"
    /\ sent = 1
    /\ timer = "armed"
    /\ services = << >>
    /\ unique_services = << >>
    /\ found = << >>
    /\ delivered = << >>
    /\ hung = FALSE
    /\ crashed = FALSE
    /\ bind_failed = FALSE
    /\ join_failed = FALSE
    /\ rx = << >>
    /\ feed = << >>

NextPair == PairMessage \/ Timeout \/ PeerTimeout

SpecPair == InitPair /\ [][NextPair]_vars

(***************************************************************************)
(* A scripted responder for the order of the final list: up to MaxFeed     *)
(* datagrams, in any order and with repetitions.  A datagram is one        *)
(* record, the PTR, SRV, TXT or A record of instance d or the PTR of       *)
(* instance e, or it is a pair of PTR records, one whose rdata is the      *)
(* service name itself ("PQ") and one whose rdata is the service name      *)
(* under the service name ("PQQ").  The session has bound, joined and      *)
(* sent.                                                                   *)
(***************************************************************************)
MaxFeed == 3

OrderDatagrams ==
    { << "P" >>, << "P2" >>, << "S" >>, << "T" >>, << "A" >>, << "PQ", "PQQ" >> }

OrderFeeds == UNION { [1..n -> OrderDatagrams] : n \in 1..MaxFeed }

InitOrder ==
    /\ api \in {"cb", "mv1"}
    /\ has_complete \in BOOLEAN
    /\ has_found \in BOOLEAN
    /\ found_other = FALSE
    /\ options_timeout = Undefined
    /\ options_interface = << INTERFACE_ADDRESS >>
    /\ call = search_call(api, options_timeout, options_interface)
    /\ stopped = FALSE
    /\ peer = NoPeer
    /\ codec = NoCodec
    /\ sock = "bound"
    /\ joined = TRUE
    /\ send = "ok"
    /\ sent = 1
    /\ timer = "armed"
    /\ services = << >>
    /\ unique_services = << >>
    /\ found = << >>
    /\ delivered = << >>
    /\ hung = FALSE
    /\ crashed = FALSE
    /\ bind_failed = FALSE
    /\ join_failed = FALSE
    /\ rx = << >>
    /\ feed \in OrderFeeds

SpecOrder == InitOrder /\ [][NextPerm]_vars

(***************************************************************************)
(* A scripted responder that also sends datagrams that do not decode: up   *)
(* to MaxFeed datagrams, each the PTR of instance d, its PTR, SRV and A    *)
(* record, a well-formed PTR followed by an SRV cut short ("BAD"), or a    *)
(* record whose owner name points to itself ("LOOP").  The session has     *)
(* bound, joined and sent.                                                 *)
(***************************************************************************)
DropDatagrams == { << "P" >>, << "P", "S", "A" >>, << "BAD" >>, << "LOOP" >> }

DropFeeds == UNION { [1..n -> DropDatagrams] : n \in 1..MaxFeed }

InitDrop ==
    /\ api \in {"cb", "mv1"}
    /\ has_complete \in BOOLEAN
    /\ has_found \in BOOLEAN
    /\ found_other = FALSE
    /\ options_timeout = Undefined
    /\ options_interface = << INTERFACE_ADDRESS >>
    /\ call = search_call(api, options_timeout, options_interface)
    /\ stopped = FALSE
    /\ peer = NoPeer
    /\ codec = NoCodec
    /\ sock = "bound"
    /\ joined = TRUE
    /\ send = "ok"
    /\ sent = 1
    /\ timer = "armed"
    /\ services = << >>
    /\ unique_services = << >>
    /\ found = << >>
    /\ delivered = << >>
    /\ hung = FALSE
    /\ crashed = FALSE
    /\ bind_failed = FALSE
    /\ join_failed = FALSE
    /\ rx = << >>
    /\ feed \in DropFeeds

SpecDrop == InitDrop /\ [][NextPerm]_vars

(***************************************************************************)
(* Two searches of one process, the second called with the options object *)
(* of the first while the first is listening.  Each has its own socket,   *)
(* bound, joined and sent, and its own scripted responder.                *)
(***************************************************************************)
SharedFeeds ==
    { << >>, << << "P", "S", "A" >> >>, << << "O", "X", "P2" >> >>,
      << << "P", "S" >>, << "A" >> >>, << << "P", "S", "A" >>, << "A" >> >> }

InitShared ==
    /\ api \in {"cb", "mv1"}
    /\ has_complete \in BOOLEAN
    /\ has_found \in BOOLEAN
    /\ found_other = FALSE
    /\ options_timeout = Undefined
    /\ options_interface = << INTERFACE_ADDRESS >>
    /\ call = search_call(api, options_timeout, options_interface)
    /\ stopped = FALSE
    /\ \E which \in {"cb", "mv1"} :
          \E peer_feed \in SharedFeeds :
             peer = [NoPeer EXCEPT !.started = TRUE, !.shared = TRUE, !.api = which,
                                   !.sock = "bound", !.timer = "armed", !.feed = peer_feed]
    /\ codec = NoCodec
    /\ sock = "bound"
    /\ joined = TRUE
    /\ send = "ok"
    /\ sent = 1
    /\ timer = "armed"
    /\ services = << >>
    /\ unique_services = << >>
    /\ found = << >>
    /\ delivered = << >>
    /\ hung = FALSE
    /\ crashed = FALSE
    /\ bind_failed = FALSE
    /\ join_failed = FALSE
    /\ rx = << >>
    /\ feed \in SharedFeeds

NextShared == FeedMessage \/ PeerMessage \/ Timeout \/ PeerTimeout

SpecShared == InitShared /\ [][NextShared]_vars

(***************************************************************************)
(* The codec on its own, as the module exports it.  A use is [step, name,  *)
(* type, rdata, buffer, offset, target, tags, cut, out]: either a          *)
(* service name that build_query encodes, after which read_name decodes    *)
(* the question name or a compression pointer appended to the message, or  *)
(* a response message that parse_dns_message decodes: one whose first      *)
(* record is of a type the parser does not know ("message"), or one of     *)
(* known records that has lost up to MaxCut bytes at its end ("datagram"). *)
(* No search is called.                                                    *)
(***************************************************************************)
MaxLabels == 2
MaxRdata == 3

\* "a", "e with acute accent" (U+00E9, two bytes in UTF-8), both, and a label of 63 bytes.
CodecLabels == { << 97 >>, << 233 >>, << 97, 233 >>, [i \in 1..63 |-> 97] }

CodecNames ==
    { join(labels, DOT) : labels \in UNION { [1..n -> CodecLabels] : n \in 1..MaxLabels } }

\* Names of one label that is too long for a DNS label: 64 bytes, one more
\* than a label may have, and 256 bytes, one more than a length byte holds.
LongNames == { [i \in 1..64 |-> 97], [i \in 1..256 |-> 97] }

\* AAAA, NSEC, an unassigned type, and a type whose low byte is that of A.
UnknownTypes == { 28, 47, 99, 257 }

\* A terminator, a pointer marker and a plain byte.
UnknownContents == UNION { [1..n -> { 0, 7, 192 }] : n \in 0..MaxRdata }

\* A response whose first record, owned by the queried name, has the given
\* type and rdata and is followed by the PTR, SRV and A record of instance d.
UnknownMessage(type, rdata) ==
    << 0, 0, 132, 0, 0, 1 >> \o WireU16(4) \o << 0, 0, 0, 0 >> \o WireQuestion
        \o WireRecord(<< 192, 12 >>, type, rdata) \o WireRecords(<< "P", "S", "A" >>)

\* Offset of the rdata of the first record: header, question, a pointer as
\* owner name and the ten bytes of type, class, ttl and rdlength.
UnknownRdataStart == 12 + Len(WireQuestion) + 2 + 10

\* TXT records of instance d whose sub-strings fill the rdata: "k=v"; none
\* (rdlength 0); "k=v=w", "b" and the empty sub-string; "k=v" and "k=w";
\* "__proto__=x".
TxtTags == { "T", "T0", "TM", "TD", "TP" }

\* Responses of known records: single records, the four records of instance
\* d, a TXT record whose only sub-string declares three bytes where the
\* rdlength is two ("TO"), followed by an A record, and a PTR record whose
\* owner name is a compression pointer to itself ("SELF").
DecodeTags ==
    { << "P" >>, << "S" >>, << "T" >>, << "A" >>, << "U" >>, << "P", "S", "T", "A" >>,
      << "TO", "A" >>, << "SELF" >> } \cup { << tag >> : tag \in TxtTags }

\* The number of bytes a response may have lost at its end.
MaxCut == 2

CutMessage(tags, cut) == SubSeq(WireMessage(tags), 1, Len(WireMessage(tags)) - cut)

InitCodec ==
    /\ api = "cb"
    /\ has_complete = FALSE
    /\ has_found = FALSE
    /\ found_other = FALSE
    /\ options_timeout = Undefined
    /\ options_interface = << >>
    /\ call = NotCalled
    /\ stopped = FALSE
    /\ peer = NoPeer
    /\ codec \in { [NoCodec EXCEPT !.step = "name", !.name = n] :
                       n \in CodecNames \cup LongNames }
                  \cup { [NoCodec EXCEPT !.step = "message", !.type = t, !.rdata = c,
                                         !.buffer = UnknownMessage(t, c)] :
                           t \in UnknownTypes, c \in UnknownContents }
                  \cup { [NoCodec EXCEPT !.step = "datagram", !.tags = t, !.cut = c,
                                         !.buffer = CutMessage(t, c)] :
                           t \in DecodeTags, c \in 0..MaxCut }
    /\ sock = "none"
    /\ joined = FALSE
    /\ send = "none"
    /\ sent = 0
    /\ timer = "none"
    /\ services = << >>
    /\ unique_services = << >>
    /\ found = << >>
    /\ delivered = << >>
    /\ hung = FALSE
    /\ crashed = FALSE
    /\ bind_failed = FALSE
    /\ join_failed = FALSE
    /\ rx = << >>
    /\ feed = << >>

\* The variables of the searches.
session ==
    << config, stopped, peer, sock, joined, send, sent, timer, services, unique_services,
       found, delivered, hung, crashed, bind_failed, join_failed, rx, feed >>

\* build_query(name)
CodecBuild ==
    /\ codec.step = "name"
    /\ \E r \in {build_query(codec.name)} :
          codec' = [codec EXCEPT !.step = IF r.st = "ok" THEN "built" ELSE "threw",
                                 !.buffer = r.bytes]
    /\ UNCHANGED session

\* read_name(query, 12): the question name of the query.
CodecReadName ==
    /\ codec.step = "built"
    /\ codec' = [codec EXCEPT !.step = "read", !.offset = 12,
                               !.out = read_name(codec.buffer, 12)]
    /\ UNCHANGED session

\* read_name at a compression pointer appended to the query, whose target is
\* the question name, what follows its first length-prefixed label, or the
\* pointer itself.
CodecReadPointer ==
    /\ codec.step = "built"
    /\ \E target \in {12, 12 + 1 + codec.buffer[13], Len(codec.buffer)} :
          \E message \in {codec.buffer \o << 192 + (target \div 256), target % 256 >>} :
             codec' = [codec EXCEPT !.step = "pointer", !.buffer = message,
                                    !.offset = Len(codec.buffer), !.target = target,
                                    !.out = read_name(message, Len(codec.buffer))]
    /\ UNCHANGED session

\* parse_dns_message(message)
CodecParse ==
    /\ codec.step \in {"message", "datagram"}
    /\ codec' = [codec EXCEPT !.step = IF @ = "message" THEN "parsed" ELSE "decoded",
                               !.out = parse_dns_message(codec.buffer)]
    /\ UNCHANGED session

NextCodec == CodecBuild \/ CodecReadName \/ CodecReadPointer \/ CodecParse

SpecCodec == InitCodec /\ [][NextCodec]_vars

(***************************************************************************)
(* Properties.                                                             *)
(***************************************************************************)
\* C1: the final list of a session goes through exactly one channel, one
\* resolution of the promise or one call of on_search_complete, never both
\* and never twice, whatever the options.
C1_OneChannelOnly == Len(delivered) <= 1

\* C2: once the timeout has elapsed, a search to which a list can be
\* delivered (it returned a promise or was given on_search_complete) has
\* delivered one, whatever happened before the deadline.
C2_DeliversAtTimeout ==
    (timer = "fired" /\ (api = "mv1" \/ has_complete)) => delivered # << >>

\* The in-domain tracked entry a delivered device was built from.
TrackedAs(dev) ==
    \E i \in 1..Len(services) :
        /\ is_smart_ip_service(services[i].name, FULL_SERVICE_QUERY)
        /\ dev = Device(service_object(services[i], FULL_SERVICE_QUERY), services)

\* C3: every delivered device carries the port, properties and addresses its
\* instance has accumulated at the deadline, records of later datagrams
\* included.
C3_FieldsAtDeadline ==
    \A k \in 1..Len(delivered) :
        \A i \in 1..Len(delivered[k].list) : TrackedAs(delivered[k].list[i])

\* C4: no delivered list, and at no time the Map it is made from, holds two
\* devices of the same name; once instance d is tracked (any number of PTR
\* records for it, in one datagram or in several) a list delivered by a
\* session without a caller on_service_found holds d exactly once.
C4_UniqueNames ==
    /\ \A i, j \in 1..Len(unique_services) :
          unique_services[i].name = unique_services[j].name => i = j
    /\ \A k \in 1..Len(delivered) :
          /\ \A i, j \in 1..Len(delivered[k].list) :
                delivered[k].list[i].name = delivered[k].list[j].name => i = j
          /\ (~has_found /\ HasEntry(services, INSTANCE_D)) =>
                Cardinality({i \in 1..Len(delivered[k].list) :
                               delivered[k].list[i].name = << 100 >>}) = 1

\* Two PTR records for instance d were received, in one datagram or in two,
\* and the delivered list holds d once.
C4_Witness ==
    /\ \/ << "P", "U", "P" >> \in {rx[i] : i \in 1..Len(rx)}
       \/ rx = << << "P" >>, << "P" >> >>
    /\ delivered # << >>
    /\ Cardinality({i \in 1..Len(delivered[1].list) : delivered[1].list[i].name = << 100 >>}) = 1

\* The list a session delivers when the four records arrive as one datagram
\* in the order PTR, SRV, TXT, A.
CanonicalList ==
    Devices(message_handler(<< >>, << >>, Wire(PermRecords), FALSE, 0).unique_services,
            message_handler(<< >>, << >>, Wire(PermRecords), FALSE, 0).services)

\* C5: whatever the arrival order of the PTR, SRV, TXT and A record of one
\* instance, and however they are spread over datagrams, a session that got
\* all four before the deadline delivers the same device (name, port,
\* properties, addresses) as for the order PTR, SRV, TXT, A.
C5_OrderIndependent ==
    (feed = << >> /\ rx # << >>) =>
        \A k \in 1..Len(delivered) : delivered[k].list = CanonicalList

\* The device of instance d with port 5353, the address of h.local and no
\* properties.
DeviceD ==
    [name |-> << 100 >>, addresses |-> << ADDRESS_H >>, port |-> << 5353 >>,
     properties |-> << >>]

\* C6: when the only datagram of the session carried PTR, SRV (port 5353,
\* target h.local) and the A record of h.local, in this order, the timeout
\* callback that closes the socket delivers (through the promise or
\* on_search_complete), and every list delivered is exactly the one device d
\* with that port, that one address and empty properties.
C6_SingleResponse ==
    rx = << << "P", "S", "A" >> >> =>
        /\ \A k \in 1..Len(delivered) : delivered[k].list = << DeviceD >>
        /\ (timer = "fired" /\ ~crashed /\ (api = "mv1" \/ has_complete)) =>
              delivered # << >>

C6_Witness ==
    /\ rx = << << "P", "S", "A" >> >>
    /\ timer = "fired"
    /\ delivered # << >>
    /\ delivered[1].list = << DeviceD >>

\* Every device handed to the caller: in a final list or in a notification.
Emitted ==
    {found[i] : i \in 1..Len(found)}
        \cup UNION {{delivered[k].list[i] : i \in 1..Len(delivered[k].list)} :
                      k \in 1..Len(delivered)}

\* C7: every device emitted, in on_service_found or in the final list, is
\* named after a tracked entry inside the queried service domain; the name
\* of an entry tracked outside the domain is never emitted.
C7_OnlyInDomain ==
    \A dev \in Emitted :
        /\ \E i \in 1..Len(services) :
              /\ is_smart_ip_service(services[i].name, FULL_SERVICE_QUERY)
              /\ dev.name = display_name(services[i].name, FULL_SERVICE_QUERY)
        /\ dev.name # FOREIGN_X

\* An entry outside the domain is tracked, and devices have been notified
\* and delivered.
C7_Witness ==
    /\ FOREIGN_X \in {services[i].name : i \in 1..Len(services)}
    /\ found # << >>
    /\ delivered # << >>
    /\ delivered[1].list # << >>

\* C8: the final result is never released before the deadline timer fires:
\* in every state in which a list has been delivered, the timer has fired,
\* however many datagrams were received.
C8_NotBeforeDeadline == delivered # << >> => timer = "fired"

C8_Witness == delivered # << >> /\ Len(rx) = MaxMsgs /\ unique_services # << >>

\* A datagram whose decoding does not succeed.
Malformed(d) == parse_dns_message(Wire(d)).st # "ok"

\* C9: a datagram whose decoding fails is dropped without aborting the
\* session: the step that receives it leaves the session running and
\* listening, with its tracked entries and its Map unchanged, so that later
\* datagrams are still decoded.
C9_MalformedDropped ==
    [][(rx' # rx /\ Malformed(rx'[Len(rx')])) =>
          /\ Running'
          /\ sock' = "bound"
          /\ services' = services
          /\ unique_services' = unique_services]_vars

\* C10: a bind failure or a multicast-join failure is fatal: the socket is
\* closed, no datagram is processed and no list is ever delivered.
C10_SetupFailureFatal ==
    (bind_failed \/ join_failed) => (sock = "closed" /\ rx = << >> /\ delivered = << >>)

\* C11: a search called with a timeout that is given and is no positive
\* number (zero, negative, not a number) fails with an invalid-configuration
\* error: the call does not return normally, no socket is created or bound
\* and no timer is armed, in both searches.
C11_InvalidTimeoutFails ==
    (call.st # "pending" /\ options_timeout # Undefined
        /\ ~(options_timeout.type = "number" /\ options_timeout.num > 0)) =>
            (call.st = "failed" /\ sock = "none" /\ timer = "none")

\* C12: a search called without options.interface fails: the call does not
\* return normally, no socket is created or bound, and no address is chosen
\* for the caller.
C12_InterfaceRequired ==
    (call.st # "pending" /\ options_interface = << >>) =>
        (call.st = "failed" /\ sock = "none" /\ call.local_interface = << >>)

\* C13: for options of the same content with a positive timeout and the
\* same datagrams, the list search_mdns_services hands to on_search_complete
\* equals the list search_mdns_servicesmv1 resolves with: the same devices
\* in the same order with the same fields.
C13_SameList ==
    \A k \in 1..Len(delivered) :
        \A j \in 1..Len(peer.delivered) :
            (delivered[k].chan = "callback" /\ peer.delivered[j].chan = "promise") =>
                delivered[k].list = peer.delivered[j].list

\* The records received so far, in arrival order.
RECURSIVE Flat(_)
Flat(datagrams) ==
    IF Len(datagrams) = 0 THEN << >> ELSE Head(datagrams) \o Flat(Tail(datagrams))

\* The PTR record that names the instance a device is called after.
PtrOf(name) ==
    CASE name = << 100 >> -> "P"
      [] name = << 101 >> -> "P2"
      [] OTHER -> "none"

PtrSeen(name) == \E i \in 1..Len(Flat(rx)) : Flat(rx)[i] = PtrOf(name)

\* The arrival position of the first PTR record naming the instance.
FirstPtr(name) ==
    CHOOSE i \in 1..Len(Flat(rx)) :
        Flat(rx)[i] = PtrOf(name) /\ \A j \in 1..(i - 1) : Flat(rx)[j] # PtrOf(name)

\* C14: in every delivered list, a device whose first PTR record arrived
\* before the first PTR record of another device of the list stands before
\* it, whatever SRV, TXT and A records arrived in between or before.
C14_FirstPtrOrder ==
    \A k \in 1..Len(delivered) :
        \A i, j \in 1..Len(delivered[k].list) :
            (/\ PtrSeen(delivered[k].list[i].name)
             /\ PtrSeen(delivered[k].list[j].name)
             /\ FirstPtr(delivered[k].list[i].name) < FirstPtr(delivered[k].list[j].name))
                => i < j

\* C15: when the caller has closed the socket search_mdns_services returned
\* and the deadline has passed, no error was raised by the timeout callback
\* and a caller who gave on_search_complete got exactly one list, the
\* devices stored up to the stop.
C15_StopIsValid ==
    (stopped /\ timer = "fired") =>
        /\ ~crashed
        /\ has_complete =>
              /\ Len(delivered) = 1
              /\ delivered[1].list = Devices(unique_services, services)

\* The device is named after an in-domain entry among the given ones.
ObservedIn(dev, srv) ==
    \E i \in 1..Len(srv) :
        /\ is_smart_ip_service(srv[i].name, FULL_SERVICE_QUERY)
        /\ dev.name = display_name(srv[i].name, FULL_SERVICE_QUERY)

\* C16: of two searches that overlap in time, the second started with the
\* options object of the first, each delivers only devices it has observed
\* itself: every device of a delivered list is named after an entry the
\* delivering search tracked from the datagrams of its own socket.
C16_NoSharedState ==
    /\ \A k \in 1..Len(delivered) :
          \A i \in 1..Len(delivered[k].list) : ObservedIn(delivered[k].list[i], services)
    /\ \A k \in 1..Len(peer.delivered) :
          \A i \in 1..Len(peer.delivered[k].list) :
              ObservedIn(peer.delivered[k].list[i], peer.services)

\* The labels of the name are of at most 63 bytes each.
ShortLabels(name) ==
    \A i \in 1..Len(split(name, 46)) : Len(Buffer_from(split(name, 46)[i])) <= 63

\* C17: for a service name of non-empty labels of at most 63 bytes each,
\* read_name at offset 12 of build_query(name) returns name + ".local" and
\* reports the offset of the question footer, four bytes before the end.
C17_RoundTrip ==
    (codec.step = "read" /\ ShortLabels(codec.name)) =>
        /\ codec.out.st = "ok"
        /\ codec.out.name = codec.name \o LOCAL_SUFFIX
        /\ codec.out.read_bytes = Len(codec.buffer) - 4

\* The labels of a name, each behind one byte holding its length in bytes.
RECURSIVE LengthPrefixed(_)
LengthPrefixed(labels) ==
    IF Len(labels) = 0 THEN << >>
    ELSE << Len(Buffer_from(Head(labels))) >> \o Buffer_from(Head(labels))
             \o LengthPrefixed(Tail(labels))

RECURSIVE LabelBytes(_)
LabelBytes(labels) ==
    IF Len(labels) = 0 THEN 0
    ELSE 1 + Len(Buffer_from(Head(labels))) + LabelBytes(Tail(labels))

\* C18: for a name of labels of at most 63 bytes,
\* build_query(name) is one message: a header with id 0, flags 0,
\* question count 1 and the other counts 0, the labels of name + ".local"
\* each behind its length, a zero byte, then type 12 and class 1; its length
\* is 12 + the sum over the labels of (1 + label length) + 1 + 4.
C18_QueryLayout ==
    (codec.step \in {"built", "threw"} /\ ShortLabels(codec.name)) =>
        /\ codec.step = "built"
        /\ codec.buffer =
              << 0, 0, 0, 0, 0, 1, 0, 0, 0, 0, 0, 0 >>
                  \o LengthPrefixed(split(codec.name \o LOCAL_SUFFIX, 46))
                  \o << 0 >> \o << 0, 12, 0, 1 >>
        /\ Len(codec.buffer) = 12 + LabelBytes(split(codec.name \o LOCAL_SUFFIX, 46)) + 1 + 4

Fields(rec) ==
    [name |-> rec.name, type |-> rec.type, cls |-> rec.cls, ttl |-> rec.ttl,
     rdlength |-> rec.rdlength, rdata |-> rec.rdata]

\* C20: a first record of a type other than 1, 12, 16 and 33 is decoded
\* with the position after it exactly rdlength bytes behind the start of its
\* rdata; the records that follow (none of their names points into that
\* rdata) are decoded as in the same message with any other rdata of the
\* same length, and to the values they have in a message without the
\* unknown record.
C20_UnknownSkipped ==
    codec.step = "parsed" =>
        /\ codec.out.st = "ok"
        /\ Len(codec.out.records) = 4
        /\ codec.out.records[1].type = codec.type
        /\ codec.out.records[1].offset = UnknownRdataStart + Len(codec.rdata)
        /\ \A c \in UnknownContents :
              Len(c) = Len(codec.rdata) =>
                  Tail(parse_dns_message(UnknownMessage(codec.type, c)).records)
                      = Tail(codec.out.records)
        /\ \A i \in 1..3 :
              Fields(codec.out.records[i + 1])
                  = Fields(parse_dns_message(WireMessage(<< "P", "S", "A" >>)).records[i])

\* A record of type 257 whose rdata starts with a pointer marker was parsed,
\* and the records behind it were decoded.
C20_Witness ==
    /\ codec.step = "parsed" /\ codec.type = 257 /\ codec.rdata = << 192, 0, 7 >>
    /\ codec.out.st = "ok"
    /\ codec.out.records[2].rdata = INSTANCE_D
    /\ codec.out.records[4].rdata = ADDRESS_H

\* The length bytes of the labels in a message whose name starts at pos.
RECURSIVE LengthBytesAt(_, _, _)
LengthBytesAt(buffer, pos, labels) ==
    IF Len(labels) = 0 THEN {}
    ELSE {buffer[pos + 1]}
            \cup LengthBytesAt(buffer, pos + 1 + Len(Buffer_from(Head(labels))), Tail(labels))

\* C21: build_query throws when a label of the query name is longer than
\* 63 bytes, and no message it returns has a label length byte above 63.
C21_LongLabelRejected ==
    codec.step \in {"built", "threw"} =>
        /\ ~ShortLabels(codec.name) => codec.step = "threw"
        /\ codec.step = "built" =>
              \A length \in LengthBytesAt(codec.buffer, 12,
                                           split(codec.name \o LOCAL_SUFFIX, 46)) :
                 length <= 63

\* C22: every device emitted is named by the tracked instance name without
\* the domain suffix: its name + "." + full_service_query is the name of a
\* tracked entry inside the domain, and two tracked entries inside the
\* domain have different device names.
C22_SuffixStripped ==
    /\ \A dev \in Emitted :
          \E i \in 1..Len(services) :
             /\ is_smart_ip_service(services[i].name, FULL_SERVICE_QUERY)
             /\ dev.name \o DOT \o FULL_SERVICE_QUERY = services[i].name
    /\ \A i, j \in 1..Len(services) :
          (/\ i # j
           /\ is_smart_ip_service(services[i].name, FULL_SERVICE_QUERY)
           /\ is_smart_ip_service(services[j].name, FULL_SERVICE_QUERY))
              => display_name(services[i].name, FULL_SERVICE_QUERY)
                    # display_name(services[j].name, FULL_SERVICE_QUERY)

\* The k-th delivered list as the caller reads it now.  The Map only grows
\* at its end, so the objects of the list are the first objects of the Map;
\* each shows the addresses array it shares with a tracked entry.
LiveList(k) == Devices(SubSeq(unique_services, 1, Len(delivered[k].list)), Heap)

\* C23: once a list has been delivered no datagram is processed, the
\* tracked entries do not change, no further list is delivered, and every
\* delivered list reads the same devices as before, in every later step.
C23_FrozenAfterDeadline ==
    [][delivered # << >> =>
          /\ rx' = rx
          /\ services' = services
          /\ delivered' = delivered
          /\ \A k \in 1..Len(delivered) : LiveList(k)' = LiveList(k)]_vars

\* C24: whenever the deadline has fired, the timeout callback raised no
\* error, also when the socket was closed before it, and a search that has
\* a channel for its result has delivered it.
C24_CloseFailureTolerated ==
    timer = "fired" =>
        /\ ~crashed
        /\ (api = "mv1" \/ has_complete) => Len(delivered) >= 1

\* C25: the step in which the send callback reports an error changes
\* neither the socket nor the timer and raises nothing; a datagram that
\* arrives after the send failed has its records applied to the tracked
\* entries, and the timeout of a session whose send failed and whose socket
\* is bound delivers the result on the channel the search has.
C25_SendErrorTolerated ==
    [][/\ (send = "pending" /\ send' = "err") =>
              (sock' = sock /\ timer' = timer /\ Running' /\ delivered' = delivered)
       /\ (send = "err" /\ Len(rx') = Len(rx) + 1) =>
              services' = handler_result("null", services, unique_services,
                                         Wire(rx'[Len(rx')]), 0).services
       /\ (/\ send = "err" /\ sock = "bound" /\ timer = "armed" /\ timer' = "fired"
           /\ (api = "mv1" \/ has_complete)) =>
              (~crashed' /\ delivered' # << >>)]_vars

\* The send failed, a datagram was processed into a device, and the list
\* with it was delivered.
C25_Witness ==
    /\ send = "err"
    /\ rx # << >>
    /\ timer = "fired"
    /\ delivered # << >>
    /\ delivered[1].list # << >>

\* C26: read_name returns, with a name or with an error, for every buffer
\* and offset it is called with, a pointer that targets itself included.
C26_ReadNameTerminates ==
    codec.step \in {"read", "pointer"} => codec.out.st \in {"ok", "err"}

\* C27: a response that has lost bytes of its last record's rdata, so that
\* the rdata declared by rdlength (a TXT sub-string, a name, an address,
\* opaque bytes) extends past the end of the buffer, fails to decode; and
\* no record of a decoded response reports a next offset beyond the buffer.
C27_OverrunFails ==
    codec.step = "decoded" =>
        /\ codec.cut > 0 => codec.out.st = "err"
        /\ codec.out.st = "ok" =>
              \A i \in 1..Len(codec.out.records) :
                 codec.out.records[i].offset <= Len(codec.buffer)

\* Where the i-th record of the decoded response started: after the
\* question, or at the offset the record before it reported.
RecordStart(i) ==
    IF i = 1 THEN 12 + Len(WireQuestion) ELSE codec.out.records[i - 1].offset

\* C28: every record of a decoded response, a TXT record included, reports
\* as its offset the start of its rdata (ten bytes after its owner name)
\* plus its rdlength.
C28_NextOffsetIsRdataEnd ==
    (codec.step = "decoded" /\ codec.out.st = "ok") =>
        \A i \in 1..Len(codec.out.records) :
           codec.out.records[i].offset =
              read_name(codec.buffer, RecordStart(i)).read_bytes + 10
                 + codec.out.records[i].rdlength

\* C29: the query was transmitted at most once, and only by a session whose
\* socket was bound and had joined the group; a session whose join failed
\* has sent nothing, whatever datagrams, errors and timeouts followed.
C29_QuerySentOnce ==
    /\ sent <= 1
    /\ sent = 1 => (joined /\ sock # "binding" /\ ~bind_failed /\ send # "none")
    /\ join_failed => (sent = 0 /\ send = "none")

\* The query was sent once by a joined session that then received MaxMsgs
\* datagrams and reached its deadline.
C29_Witness == sent = 1 /\ joined /\ Len(rx) = MaxMsgs /\ timer = "fired"

\* The owner and the address of the A records the responder sends.
AOwner(d) == IF d = << "A" >> THEN HOST_H ELSE << 120 >> \o LOCAL_SUFFIX

AAddress(d) == IF d = << "A" >> THEN ADDRESS_H ELSE << 49, 48, 46, 48, 46, 48, 46, 54 >>

\* C30: a datagram of one A record leaves the tracked entries as they were
\* but for the addresses of those whose target is the record's owner, which
\* get the record's address appended once; no entry is added or removed.
C30_ARecordFrame ==
    [][(Len(rx') = Len(rx) + 1 /\ rx'[Len(rx')] \in {<< "A" >>, << "A2" >>}) =>
          /\ Len(services') = Len(services)
          /\ \A i \in 1..Len(services) :
                services'[i] =
                   IF services[i].target = << AOwner(rx'[Len(rx')]) >>
                   THEN [services[i] EXCEPT
                            !.addresses =
                               << (IF @ = << >> THEN << >> ELSE @[1])
                                     \o << AAddress(rx'[Len(rx')]) >> >>]
                   ELSE services[i]]_vars

\* Entry d, whose target is h.local, got the address of the A record of
\* h.local, once.
C30_Witness ==
    /\ rx = << << "S" >>, << "A" >> >>
    /\ \E i \in 1..Len(services) :
          services[i].name = INSTANCE_D /\ services[i].addresses = << << ADDRESS_H >> >>

\* The record without the offset parse_dns_message keeps with it.
Decoded(record) == [f \in DOMAIN record \ {"offset"} |-> record[f]]

\* C31: a response that parse_dns_message decodes has as many records as
\* its three counts say, the first decoded right after the one question
\* (its name and four bytes) and every other one at the offset the record
\* before it reported; a response it does not decode ends in an error, with
\* no record list.
C31_CountsAndOrder ==
    codec.step \in {"parsed", "decoded"} =>
        IF codec.out.st = "ok"
        THEN /\ codec.out.header.qdcount = 1
             /\ Len(codec.out.records)
                   = codec.out.header.ancount + codec.out.header.nscount
                        + codec.out.header.arcount
             /\ \A i \in 1..Len(codec.out.records) :
                   /\ parse_record(codec.buffer, RecordStart(i)).st = "ok"
                   /\ parse_record(codec.buffer, RecordStart(i)).rec
                         = Decoded(codec.out.records[i])
                   /\ parse_record(codec.buffer, RecordStart(i)).offset
                         = codec.out.records[i].offset
        ELSE codec.out.st = "err" /\ codec.out.records = << >>

\* The rdata of a TXT record of instance d on the wire: what follows the
\* four bytes of the owner name and the ten of type, class, ttl, rdlength.
TxtRdata(tag) == SubSeq(WireOf(tag), 15, Len(WireOf(tag)))

\* The length-prefixed sub-strings of an rdata they fill, as text.
RECURSIVE SubStrings(_)
SubStrings(rdata) ==
    IF Len(rdata) = 0 THEN << >>
    ELSE << utf8_decode(SubSeq(rdata, 2, 1 + rdata[1])) >>
            \o SubStrings(SubSeq(rdata, 2 + rdata[1], Len(rdata)))

\* The position of the first '=' of a text that has one.
FirstEqual(txt) == CHOOSE i \in 1..Len(txt) : txt[i] = 61 /\ \A j \in 1..(i - 1) : txt[j] # 61

\* The mapping has one entry per sub-string: the text before the first '='
\* mapped to the text after it, or the whole text mapped to true.
TxtAsClaimed(mapping, subs) ==
    /\ Cardinality(DOMAIN mapping) = Len(subs)
    /\ \A i \in 1..Len(subs) :
          IF \E j \in 1..Len(subs[i]) : subs[i][j] = 61
          THEN /\ SubSeq(subs[i], 1, FirstEqual(subs[i]) - 1) \in DOMAIN mapping
               /\ mapping[SubSeq(subs[i], 1, FirstEqual(subs[i]) - 1)]
                     = [flag |-> FALSE,
                        value |-> SubSeq(subs[i], FirstEqual(subs[i]) + 1, Len(subs[i]))]
          ELSE /\ subs[i] \in DOMAIN mapping
               /\ mapping[subs[i]] = [flag |-> TRUE, value |-> << >>]

\* C32: a response of one TXT record whose sub-strings fill its rdata
\* decodes to a mapping with one entry per sub-string, split at the first
\* '=' or mapped to true; with rdlength 0 the mapping is empty.
C32_TxtMapping ==
    (codec.step = "decoded" /\ codec.cut = 0 /\ Len(codec.tags) = 1
        /\ codec.tags[1] \in TxtTags) =>
        /\ codec.out.st = "ok"
        /\ codec.out.records[1].type = 16
        /\ TxtAsClaimed(codec.out.records[1].rdata, SubStrings(TxtRdata(codec.tags[1])))

Names(list) == [i \in 1..Len(list) |-> list[i].name]

\* C33: the step that decodes a datagram calls the caller's on_service_found
\* once for every tracked entry inside the domain, in the order of the
\* tracked entries, with the fields the entry has after the datagram; and a
\* list that is delivered holds, once each, the names the wrapper was
\* called with (it stores a name just before it calls the caller's
\* function).
C33_NotifiedPerDatagram ==
    [][/\ (has_found /\ Len(rx') = Len(rx) + 1 /\ ~Malformed(rx'[Len(rx')])) =>
              found' = Devices(emitted(services', FULL_SERVICE_QUERY), services')
       /\ delivered' # delivered =>
              \A k \in 1..Len(delivered') :
                 /\ Names(delivered'[k].list) = Names(unique_services)
                 /\ \A i, j \in 1..Len(delivered'[k].list) :
                       delivered'[k].list[i].name = delivered'[k].list[j].name => i = j]_vars

\* C34: the step that receives a datagram of which some part does not
\* decode changes no tracked entry, not even by a well-formed record that
\* stands before the malformed one, stores nothing in the Map and notifies
\* nobody.
C34_AllOrNothing ==
    [][(Len(rx') = Len(rx) + 1 /\ Malformed(rx'[Len(rx')])) =>
          /\ services' = services
          /\ unique_services' = unique_services
          /\ found' = << >>]_vars

\* A search with on_service_found received the well-formed PTR record of d
\* followed by a cut SRV record: nothing is tracked, nobody was notified.
C34_Witness ==
    /\ has_found
    /\ rx = << << "BAD" >> >>
    /\ services = << >>
    /\ found = << >>

\* C35: every list delivered names every entry that is tracked inside the
\* domain at the deadline, whether or not the caller's on_service_found
\* threw while a datagram was being notified.
C35_ThrowLosesNoDevice ==
    \A k \in 1..Len(delivered) :
        \A i \in 1..Len(services) :
            is_smart_ip_service(services[i].name, FULL_SERVICE_QUERY) =>
                \E j \in 1..Len(delivered[k].list) :
                    delivered[k].list[j].name
                        = display_name(services[i].name, FULL_SERVICE_QUERY)

====
